---- MODULE Spec2Model ----
(***************************************************************************)
(* Model of recon-core: the MART solver (lib.rs: mart_step,                *)
(* mart_reconstruct) and its command-line caller (bin/mart_cli.rs: main).  *)
(*                                                                         *)
(* Numbers.  The code computes in f32.  The model computes on exact        *)
(* rationals <<numerator, denominator>> in lowest terms with a positive    *)
(* denominator; inputs are small integers and the relaxation exponent is a *)
(* natural number, so every value the solver produces is a rational and    *)
(* powf is repeated multiplication (powf(r, 0) = 1 for every r, as in      *)
(* IEEE 754).  Rounding, overflow to infinity and NaN are outside the      *)
(* model.                                                                  *)
(***************************************************************************)
EXTENDS Integers, Sequences, FiniteSets, TLC

\* ---------------------------------------------------------------- bounds
MaxM == 2
MaxN == 2
MaxIters == 2

\* matrix entries: a negative, a zero and two different positive weights
AVals == {-1, 0, 1, 3}
\* measurements
YVals == {0, 1, 2, 4}
\* relaxation exponents (f32 in the code; naturals here, see above)
Lambdas == {0, 1, 2}
\* voxel values of the true volume of a consistent system
XTrueVals == {1, 2}

\* an array the archive does not hold; a variable not yet assigned
Missing == <<>>
NoValue == <<>>

\* ------------------------------------------------------------- rationals
Abs(n) == IF n < 0 THEN -n ELSE n

RECURSIVE GCD(_, _)
GCD(a, b) == IF b = 0 THEN a ELSE GCD(b, a % b)

Norm(n, d) ==
    LET g == GCD(Abs(n), Abs(d))
        s == IF d < 0 THEN -1 ELSE 1
    IN  <<(s * n) \div g, (s * d) \div g>>

Rat(n) == <<n, 1>>
RZero == Rat(0)
ROne == Rat(1)

\* products are reduced before they are formed, to stay within TLC's integers
LCM(a, b) == (a \div GCD(a, b)) * b

RAdd(a, b) ==
    LET l == LCM(a[2], b[2])
    IN  Norm(a[1] * (l \div a[2]) + b[1] * (l \div b[2]), l)
RNeg(a) == <<-a[1], a[2]>>
RSub(a, b) == RAdd(a, RNeg(b))
RMul(a, b) ==
    LET g1 == GCD(Abs(a[1]), b[2])
        g2 == GCD(Abs(b[1]), a[2])
    IN  Norm((a[1] \div g1) * (b[1] \div g2), (a[2] \div g2) * (b[2] \div g1))
RDiv(a, b) == RMul(a, IF b[1] < 0 THEN <<-b[2], -b[1]>> ELSE <<b[2], b[1]>>)
RLeq(a, b) == RSub(a, b)[1] <= 0
RLt(a, b) == RSub(a, b)[1] < 0
RAbs(a) == <<Abs(a[1]), a[2]>>

\* f32::powf with a natural exponent
RECURSIVE powf(_, _)
powf(r, k) == IF k = 0 THEN ROne ELSE RMul(r, powf(r, k - 1))

\* ---------------------------------------------------------------- arrays
Vectors(len, vals) == [1..len -> vals]
Matrices(m, n, vals) == [1..m -> [1..n -> vals]]

\* Array2::dim
dim(A) == <<Len(A), Len(A[1])>>

from_elem_zeros(n, v) == [j \in 1..n |-> RZero]

\* Array1::from_elem
from_elem(n, v) == [j \in 1..n |-> v]

\* the accumulation loop of mart_step: sum_j row[j] * x[j], j ascending
RECURSIVE DotUpTo(_, _, _)
DotUpTo(row, x, n) ==
    IF n = 0 THEN RZero
    ELSE RAdd(DotUpTo(row, x, n - 1), RMul(Rat(row[n]), x[n]))

Dot(row, x) == DotUpTo(row, x, Len(row))

\* ------------------------------------------------------------ the inputs
AllY == UNION {Vectors(m, YVals) : m \in 1..MaxM}
AllA == UNION {Matrices(m, n, AVals) : m \in 1..MaxM, n \in 1..MaxN}

\* A * x for an integer matrix and an integer vector
RECURSIVE IntDotUpTo(_, _, _)
IntDotUpTo(row, x, n) ==
    IF n = 0 THEN 0 ELSE IntDotUpTo(row, x, n - 1) + row[n] * x[n]

MatVec(A, x) == [r \in 1..Len(A) |-> IntDotUpTo(A[r], x, Len(x))]

VARIABLES
    pc,             \* position of main
    npz,            \* the arrays stored in the archive given by --projections
    n_iters,        \* args.n_iters
    relaxation,     \* args.relaxation
    projections,    \* y, once loaded
    system_matrix,  \* A, once loaded
    geom_file,      \* whether the geometry file is open
    volume,         \* x of mart_reconstruct
    pass,           \* passes completed by mart_reconstruct
    i,              \* ray index of mart_step (0-based, as in the code)
    y_hat,          \* local of the ray last processed
    factor,         \* local of the ray last processed (NoValue when skipped)
    pass_start,     \* history: volume when the current call of mart_step began
    output          \* the array written to --output

vars == <<pc, npz, n_iters, relaxation, projections, system_matrix, geom_file,
          volume, pass, i, y_hat, factor, pass_start, output>>

\* ------------------------------------------------------------------ Init
InitRest ==
    /\ pc = "open_npz"
    /\ projections = NoValue
    /\ system_matrix = NoValue
    /\ geom_file = FALSE
    /\ volume = NoValue
    /\ pass = 0
    /\ i = 0
    /\ y_hat = NoValue
    /\ factor = NoValue
    /\ pass_start = NoValue
    /\ output = NoValue

\* any archive, any arguments
Init ==
    /\ npz \in [projections : AllY \cup {Missing},
                system_matrix : AllA \cup {Missing}]
    /\ n_iters \in 0..MaxIters
    /\ relaxation \in Lambdas
    \* an exponent above 1 squares the values at every update: the passes it
    \* is given are fewer, so that the values stay within TLC's integers
    /\ relaxation * n_iters <= MaxIters
    /\ InitRest

\* a consistent system: A and x_true strictly positive, y = A * x_true,
\* 0 < relaxation <= 1
StrictlyPositive(A) == \A r \in 1..Len(A) : \A c \in 1..Len(A[r]) : A[r][c] > 0

InitConsistent ==
    /\ \E A \in {B \in AllA : StrictlyPositive(B)} :
         \E xt \in Vectors(Len(A[1]), XTrueVals) :
            npz = [projections |-> MatVec(A, xt), system_matrix |-> A]
    /\ n_iters \in 0..MaxIters
    /\ relaxation = 1
    /\ InitRest

\* ------------------------------------------------------------------ main
\* File::open(&args.projections) and NpzReader::new
main_open_npz ==
    /\ pc = "open_npz"
    /\ \/ pc' = "load_projections"
       \/ pc' = "err_npz"
    /\ UNCHANGED <<npz, n_iters, relaxation, projections, system_matrix,
                   geom_file, volume, pass, i, y_hat, factor, pass_start, output>>

\* npz.by_name("projections")
main_load_projections ==
    /\ pc = "load_projections"
    /\ IF npz.projections = Missing
       THEN pc' = "err_projections" /\ UNCHANGED projections
       ELSE pc' = "load_system_matrix" /\ projections' = npz.projections
    /\ UNCHANGED <<npz, n_iters, relaxation, system_matrix,
                   geom_file, volume, pass, i, y_hat, factor, pass_start, output>>

\* npz.by_name("system_matrix")
main_load_system_matrix ==
    /\ pc = "load_system_matrix"
    /\ IF npz.system_matrix = Missing
       THEN pc' = "err_system_matrix" /\ UNCHANGED system_matrix
       ELSE pc' = "open_geometry" /\ system_matrix' = npz.system_matrix
    /\ UNCHANGED <<npz, n_iters, relaxation, projections,
                   geom_file, volume, pass, i, y_hat, factor, pass_start, output>>

main_open_geometry_unchecked ==
    /\ pc = "open_geometry"
    /\ \/ pc' = "call" /\ geom_file' = TRUE
       \/ pc' = "call" /\ UNCHANGED geom_file
    /\ UNCHANGED <<npz, n_iters, relaxation, projections, system_matrix,
                   volume, pass, i, y_hat, factor, pass_start, output>>

\* File::open(&args.geometry)
main_open_geometry ==
    /\ pc = "open_geometry"
    /\ \/ pc' = "call" /\ geom_file' = TRUE
       \/ pc' = "err_geometry" /\ UNCHANGED geom_file
    /\ UNCHANGED <<npz, n_iters, relaxation, projections, system_matrix,
                   volume, pass, i, y_hat, factor, pass_start, output>>

\* ------------------------------------------------------ mart_reconstruct
\* the call in main, and the initial guess
mart_reconstruct ==
    /\ pc = "call"
    /\ volume' = from_elem(dim(system_matrix)[2], ROne)
    /\ pass' = 0
    /\ pc' = "loop"
    /\ UNCHANGED <<npz, n_iters, relaxation, projections, system_matrix,
                   geom_file, i, y_hat, factor, pass_start, output>>

more_passes_inclusive(done, n) == done <= n

\* for _ in 0..n_iters
more_passes(done, n) == done < n

\* one more pass: the call of mart_step and its two assertions
mart_step ==
    /\ pc = "loop"
    /\ more_passes(pass, n_iters)
    /\ IF Len(projections) # dim(system_matrix)[1]
          \/ Len(volume) # dim(system_matrix)[2]
       THEN pc' = "panic" /\ UNCHANGED <<i, pass_start>>
       ELSE pc' = "ray" /\ i' = 0 /\ pass_start' = volume
    /\ UNCHANGED <<npz, n_iters, relaxation, projections, system_matrix,
                   geom_file, volume, pass, y_hat, factor, output>>

skip_ray_zero_only(yh) == yh = RZero

\* if y_hat <= 0.0 { continue; }
skip_ray(yh) == RLeq(yh, RZero)

touches_nonzero(a_ij) == a_ij # 0

\* if a_ij > 0.0
touches(a_ij) == a_ij > 0

ray_factor_product(y_i, yh, lambda) == RMul(RDiv(Rat(y_i), yh), Rat(lambda))

ray_factor_inverted(y_i, yh, lambda) == powf(RDiv(yh, Rat(y_i)), lambda)

\* let ratio = projections[i] / y_hat; let factor = ratio.powf(relaxation);
ray_factor(y_i, yh, lambda) == powf(RDiv(Rat(y_i), yh), lambda)

ray_input_snapshot(x, x0) == x0

\* the volume the dot product of a ray reads: x is the volume as it is now,
\* x0 the volume as it was when the pass began
ray_input(x, x0) == x

ray_update_weighted(row, x, f) ==
    [j \in 1..Len(x) |->
        IF touches(row[j]) THEN RMul(x[j], powf(f, row[j])) ELSE x[j]]

\* volume[j] *= factor, for the voxels the ray touches
ray_update(row, x, f) ==
    [j \in 1..Len(x) |-> IF touches(row[j]) THEN RMul(x[j], f) ELSE x[j]]

\* the body of `for i in 0..m`
mart_step_ray ==
    /\ pc = "ray"
    /\ i < dim(system_matrix)[1]
    /\ LET row == system_matrix[i + 1]
           yh == Dot(row, ray_input(volume, pass_start))
       IN  /\ y_hat' = yh
           /\ IF skip_ray(yh)
              THEN factor' = NoValue /\ UNCHANGED volume
              ELSE LET f == ray_factor(projections[i + 1], yh, relaxation)
                   IN  factor' = f /\ volume' = ray_update(row, volume, f)
    /\ i' = i + 1
    /\ UNCHANGED <<pc, npz, n_iters, relaxation, projections, system_matrix,
                   geom_file, pass, pass_start, output>>

\* the end of `for i in 0..m`: mart_step returns
mart_step_return ==
    /\ pc = "ray"
    /\ i = dim(system_matrix)[1]
    /\ pass' = pass + 1
    /\ pc' = "loop"
    /\ UNCHANGED <<npz, n_iters, relaxation, projections, system_matrix,
                   geom_file, volume, i, y_hat, factor, pass_start, output>>

\* the end of `for _ in 0..n_iters`: mart_reconstruct returns volume
mart_reconstruct_return ==
    /\ pc = "loop"
    /\ ~more_passes(pass, n_iters)
    /\ pc' = "write"
    /\ UNCHANGED <<npz, n_iters, relaxation, projections, system_matrix,
                   geom_file, volume, pass, i, y_hat, factor, pass_start, output>>

\* ndarray_npy::write_npy(&args.output, &volume)
main_write_npy ==
    /\ pc = "write"
    /\ \/ pc' = "done" /\ output' = volume
       \/ pc' = "err_write" /\ UNCHANGED output
    /\ UNCHANGED <<npz, n_iters, relaxation, projections, system_matrix,
                   geom_file, volume, pass, i, y_hat, factor, pass_start>>

Next ==
    \/ main_open_npz
    \/ main_load_projections
    \/ main_load_system_matrix
    \/ main_open_geometry
    \/ mart_reconstruct
    \/ mart_step
    \/ mart_step_ray
    \/ mart_step_return
    \/ mart_reconstruct_return
    \/ main_write_npy

Spec == Init /\ [][Next]_vars

SpecConsistent == InitConsistent /\ [][Next]_vars

\* ================================================================ claims
M == dim(system_matrix)[1]
N == dim(system_matrix)[2]
Loaded == projections # NoValue /\ system_matrix # NoValue
Consistent == Loaded /\ Len(projections) = M
\* mart_reconstruct has returned a volume to main
Returned == pc \in {"write", "done", "err_write"}
\* main is inside or past the call of mart_reconstruct
Invoked == pc \in {"loop", "ray", "panic", "write", "done", "err_write"}
\* main returned the error of a step that precedes the call
InputError ==
    pc \in {"err_npz", "err_projections", "err_system_matrix", "err_geometry"}
\* the step about to be taken is the update of ray i
AtRay == pc = "ray" /\ i < M
Ones(n) == [j \in 1..n |-> ROne]
Mismatch(r, x) == RAbs(RSub(Dot(system_matrix[r], x), Rat(projections[r])))

\* C1: a call with a measurement vector whose length differs from the row
\* count of A fails before any update is computed and returns no volume,
\* for every n_iters, n_iters = 0 included.
C1_MismatchFailsFast ==
    (Loaded /\ Len(projections) # M)
        => /\ ~Returned
           /\ y_hat = NoValue
           /\ output = NoValue

\* C2: rays are processed in index order 0, 1, ..., M-1, passes in order
\* 0..n_iters, and the predicted measurement of a ray is the dot product of
\* its row with the volume as the previous ray left it.
C2_StepOrder ==
    /\ (pc = "loop" /\ pc' = "ray") => (pass < n_iters /\ i' = 0)
    /\ (pc = "ray" /\ pc' = "ray")
          => /\ i < M
             /\ i' = i + 1
             /\ pass' = pass
             /\ y_hat' = Dot(system_matrix[i + 1], volume)
    /\ (pc = "ray" /\ pc' = "loop") => (i = M /\ pass' = pass + 1)
    /\ (pc = "loop" /\ pc' = "write") => pass = n_iters

\* C2: every step of the solve keeps the order and the sequential visibility
C2_SequentialVisibility == [][C2_StepOrder]_vars

\* a ray of a later position whose prediction differs from the one the
\* volume of the start of the pass gives
C2_Witness ==
    /\ pc = "ray"
    /\ pass = 1
    /\ i = 2
    /\ y_hat # NoValue
    /\ y_hat # Dot(system_matrix[2], pass_start)

\* C3: a ray whose prediction y_hat is > 0 multiplies every voxel of positive
\* weight by the same factor (y[i] / y_hat)^lambda; with lambda = 1 and one
\* pass, A = [[1,1]], y = [4] gives [2,2] and A = [[1,1],[1,0]], y = [2,1]
\* gives [1,1].
C3_Step ==
    AtRay =>
        LET row == system_matrix[i + 1]
            yh == Dot(row, volume)
        IN  RLt(RZero, yh) =>
              \A j \in 1..N :
                 row[j] > 0 =>
                    volume'[j] =
                       RMul(volume[j],
                            powf(RDiv(Rat(projections[i + 1]), yh), relaxation))

C3_Example1 ==
    npz = [projections |-> <<4>>, system_matrix |-> <<<<1, 1>>>>]

C3_Example2 ==
    npz = [projections |-> <<2, 1>>, system_matrix |-> <<<<1, 1>>, <<1, 0>>>>]

C3_Examples ==
    (Returned /\ relaxation = 1 /\ n_iters = 1)
        => /\ C3_Example1 => volume = <<Rat(2), Rat(2)>>
           /\ C3_Example2 => volume = <<Rat(1), Rat(1)>>

\* C3: every ray update applies one factor, and the two examples hold
C3_UniformFactor == [][C3_Step]_vars /\ []C3_Examples

\* a ray of weights 3 and 1 has scaled both voxels by the same factor
C3_Witness ==
    /\ pc = "ray"
    /\ pass = 0
    /\ i = 1
    /\ system_matrix[1] = <<3, 1>>
    /\ factor # NoValue
    /\ factor # ROne
    /\ volume = <<factor, factor>>

\* C4: a ray whose prediction is <= 0 leaves every voxel unchanged, and the
\* solve goes on with the next ray.
C4_Step ==
    (AtRay /\ RLeq(Dot(system_matrix[i + 1], volume), RZero))
        => /\ volume' = volume
           /\ pc' = "ray"
           /\ i' = i + 1

\* C4: every step at a ray of prediction <= 0 is a skip
C4_SkipNonPositive == [][C4_Step]_vars

\* a ray of negative prediction was skipped although its row has a positive
\* weight and its measurement and the relaxation are not zero
C4_Witness ==
    /\ pc = "ray"
    /\ i = 2
    /\ y_hat # NoValue
    /\ RLt(y_hat, RZero)
    /\ factor = NoValue
    /\ \E j \in 1..N : system_matrix[2][j] > 0
    /\ projections[2] # 0
    /\ relaxation # 0

\* C5: the update of a ray leaves every voxel of weight <= 0 unchanged.
C5_Step ==
    AtRay => \A j \in 1..N :
                system_matrix[i + 1][j] <= 0 => volume'[j] = volume[j]

\* C5: every ray update leaves the voxels of weight <= 0 alone
C5_SparsityRespect == [][C5_Step]_vars

\* the first ray changed voxel 1 and left voxel 2, of negative weight, as it was
C5_Witness ==
    /\ pc = "ray"
    /\ pass = 0
    /\ i = 1
    /\ N = 2
    /\ system_matrix[1][1] > 0
    /\ system_matrix[1][2] < 0
    /\ factor # NoValue
    /\ volume[1] # ROne
    /\ volume[2] = ROne

\* C6: with n_iters = 0 and consistent dimensions, the volume returned has
\* length N and every entry 1.
C6_ZeroIters ==
    (Returned /\ Consistent /\ n_iters = 0)
        => /\ Len(volume) = N
           /\ volume = Ones(N)
           /\ (pc = "done" => output = Ones(N))

C6_Witness ==
    /\ pc = "done"
    /\ n_iters = 0
    /\ Consistent
    /\ relaxation = 1
    /\ N = 2
    /\ projections = <<4, 2>>
    /\ output = Ones(2)

\* C7: with lambda = 0 and consistent dimensions, the factor of every ray
\* update is 1 and the volume returned is all ones, for every n_iters.
C7_ZeroRelaxation ==
    (Consistent /\ relaxation = 0)
        => /\ factor \in {NoValue, ROne}
           /\ (volume # NoValue => volume = Ones(N))
           /\ (pc = "done" => output = Ones(N))

\* two passes, the last ray updated with measurement 0
C7_Witness ==
    /\ pc = "done"
    /\ relaxation = 0
    /\ n_iters = 2
    /\ Consistent
    /\ projections[M] = 0
    /\ factor = ROne
    /\ output = Ones(N)

\* C8: the solver is invoked only after the archive was opened, both arrays
\* were loaded and the geometry file was opened; when one of these steps
\* fails main ends with the error, the solver is not invoked and nothing is
\* written; the output is written only after the solver returned a volume.
C8_State ==
    /\ Invoked => (Loaded /\ geom_file)
    /\ (volume # NoValue) => Invoked
    /\ InputError => (volume = NoValue /\ output = NoValue)
    /\ (output # NoValue) => (pc = "done" /\ pass = n_iters /\ output = volume)
    /\ (pc = "err_projections") => npz.projections = Missing
    /\ (pc = "err_system_matrix") => npz.system_matrix = Missing

\* C8: the ordering holds in every state, and no step leaves an input error
C8_LoadBeforeSolve == []C8_State /\ [][~InputError]_vars

\* the geometry file failed to open after both arrays were loaded
C8_Witness ==
    /\ pc = "err_geometry"
    /\ Loaded
    /\ ~geom_file
    /\ volume = NoValue
    /\ output = NoValue

C9_Step ==
    AtRay =>
        /\ RLeq(Mismatch(i + 1, volume'), Mismatch(i + 1, volume))
        /\ relaxation = 1
              => Dot(system_matrix[i + 1], volume') = Rat(projections[i + 1])

NonNegative(A) == \A r \in 1..Len(A) : \A c \in 1..Len(A[r]) : A[r][c] >= 0

C10_Positivity ==
    (Loaded /\ NonNegative(system_matrix)
       /\ (\A r \in 1..Len(projections) : projections[r] > 0)
       /\ volume # NoValue)
        => /\ \A j \in 1..N : RLt(RZero, volume[j])
           /\ (pc = "done" => \A j \in 1..N : RLt(RZero, output[j]))

\* a zero weight and a squared factor below 1
C10_Witness ==
    /\ pc = "done"
    /\ Consistent
    /\ NonNegative(system_matrix)
    /\ \A r \in 1..M : projections[r] > 0
    /\ \E r \in 1..M : \E c \in 1..N : system_matrix[r][c] = 0
    /\ relaxation = 2
    /\ \E j \in 1..N : RLt(output[j], ROne)

====
